---- MODULE Spec2Model ----
(***************************************************************************)
(* Model of pyvista.core.datasetattributes.DataSetAttributes: the dict-like *)
(* adapter over one vtkFieldData / vtkDataSetAttributes container, its      *)
(* owning dataset's point and cell counts and the dataset's registry of     *)
(* boolean-flagged array names (association_bitarray_names).                *)
(*                                                                         *)
(* A numpy array is modelled by its dtype, its shape, its strides (in       *)
(* elements) and its memory buffer; a view changes the dtype and, when the  *)
(* item size changes, re-reads the buffer byte by byte.  A vtk array is     *)
(* modelled by its name, whether it is a vtkDataArray, its dtype, its tuple *)
(* and component counts and its buffer.                                     *)
(***************************************************************************)
EXTENDS Integers, Sequences, FiniteSets, TLC

\* ------------------------------------------------------------------ bounds
\* dataset.GetNumberOfPoints() and dataset.GetNumberOfCells() of the owning
\* dataset (fixed for the whole run; they differ so that a value can fit one
\* association and not the other).
NumPoints == 2
NumCells == 1
\* Largest integer key tried by get / remove / pop.
MaxIndex == 2

\* ------------------------------------------------------------ enumerations
POINT == "POINT"
CELL == "CELL"
FIELD == "FIELD"
ROW == "ROW"
Associations == {POINT, CELL, FIELD, ROW}

\* Names the callers use, the name the texture-coordinate setter gives its
\* array, the name of an array the toolkit put in the container itself, and
\* the result of GetName() on an array that was never named.
UserNames == {"a", "b"}
TCoordsName == "Texture Coordinates"
NativeName == "s"
NoName == ""
AllNames == UserNames \cup {TCoordsName, NativeName}

OK == "ok"
TypeError == "TypeError"
ValueError == "ValueError"
AttributeError == "AttributeError"
IndexError == "IndexError"
KeyError == "KeyError"

\* ------------------------------------------------------------------- numpy
RECURSIVE Product(_)
Product(s) == IF s = << >> THEN 1 ELSE Head(s) * Product(Tail(s))

RECURSIVE Flatten(_)
Flatten(ss) == IF ss = << >> THEN << >> ELSE Head(ss) \o Flatten(Tail(ss))

Pow2(k) == Product([i \in 1..k |-> 2])

\* numpy.dtype(...).itemsize
ItemSize(dtype) == IF dtype \in {"bool", "uint8"} THEN 1 ELSE 8

\* The strides (in elements) of a C-contiguous array of this shape.
CStrides(shape) ==
    [i \in 1..Len(shape) |-> Product(SubSeq(shape, i + 1, Len(shape)))]

\* ndarray.flags.contiguous
Contiguous(narray) == narray.strides = CStrides(narray.shape)

\* The values an input can be: None, a Python scalar, a list, a numpy array
\* (zero-dimensional when shape is << >>).
NdArray(dtype, shape, strides, buf) ==
    [kind |-> "ndarray", dtype |-> dtype, shape |-> shape,
     strides |-> strides, buf |-> buf]
NoneValue == [kind |-> "none", dtype |-> "none", shape |-> << >>,
              strides |-> << >>, buf |-> << >>]
PyScalar(x) == [kind |-> "pyscalar", dtype |-> "none", shape |-> << >>,
                strides |-> << >>, buf |-> <<x>>]
PyList(items) == [kind |-> "list", dtype |-> "none", shape |-> <<Len(items)>>,
                  strides |-> <<1>>, buf |-> items]

IsNdArray(v) == v.kind = "ndarray"
Ndim(v) == Len(v.shape)

\* The element at a multi-index (0-based, as in numpy) of an array.
RECURSIVE Offset(_, _)
Offset(idx, strides) ==
    IF idx = << >> THEN 0
    ELSE Head(idx) * Head(strides) + Offset(Tail(idx), Tail(strides))
ElementAt(narray, idx) == narray.buf[1 + Offset(idx, narray.strides)]

\* The multi-index of the k-th element (k from 0) in C order.
MultiIndex(shape, k) ==
    [i \in 1..Len(shape) |-> (k \div CStrides(shape)[i]) % shape[i]]

\* The elements of an array in C (row-major) order of its indices.
Elements(narray) ==
    [k \in 1..Product(narray.shape) |->
        ElementAt(narray, MultiIndex(narray.shape, k - 1))]

\* numpy.ascontiguousarray: the same elements in a fresh C-ordered buffer.
AsContiguous(narray) ==
    NdArray(narray.dtype, narray.shape, CStrides(narray.shape), Elements(narray))

\* ndarray.transpose(0, 2, 1) of a rank-3 array: a view, no copy.
Transpose021(narray) ==
    NdArray(narray.dtype,
            <<narray.shape[1], narray.shape[3], narray.shape[2]>>,
            <<narray.strides[1], narray.strides[3], narray.strides[2]>>,
            narray.buf)

\* ndarray.reshape(shape) of a contiguous array: a view of the same buffer.
Reshape(narray, shape) ==
    NdArray(narray.dtype, shape, CStrides(shape), narray.buf)

\* The bytes (little-endian) of one element of the dtype.  A float64 holds a
\* whole number 0 <= e < 256 here: sign 0, exponent 1023 + k, mantissa the
\* bits of e below its leading one.
Log2(e) == CHOOSE k \in 0..8 : Pow2(k) <= e /\ e < Pow2(k + 1)
Float64Bytes(e) ==
    IF e = 0 THEN [i \in 1..8 |-> 0]
    ELSE LET k == Log2(e)
             ex == 1023 + k
             frac12 == ((e - Pow2(k)) * 4096) \div Pow2(k)
         IN  <<0, 0, 0, 0, 0, frac12 % 256,
               (ex % 16) * 16 + (frac12 \div 256), ex \div 16>>
Int64Bytes(e) ==
    [i \in 1..8 |-> IF i <= 4 THEN (e \div Product([j \in 1..(i-1) |-> 256])) % 256
                    ELSE 0]
ItemBytes(dtype, e) ==
    IF ItemSize(dtype) = 1 THEN <<e>>
    ELSE IF dtype = "float64" THEN Float64Bytes(e)
    ELSE Int64Bytes(e)

\* ndarray.view(dtype) of a contiguous array: the buffer re-read with the new
\* item size (the last axis grows when the items shrink).
View(narray, dtype) ==
    IF ItemSize(narray.dtype) = ItemSize(dtype)
    THEN [narray EXCEPT !.dtype = dtype]
    ELSE LET n == Len(narray.shape)
             shape == [narray.shape EXCEPT ![n] = @ * ItemSize(narray.dtype)]
         IN  NdArray(dtype, shape, CStrides(shape),
                     Flatten([i \in 1..Len(narray.buf) |->
                                 ItemBytes(narray.dtype, narray.buf[i])]))

\* --------------------------------------------------------- the vtk container
\* One array of the container: vtkDataArray (typed TRUE) or another
\* vtkAbstractArray such as a vtkStringArray (typed FALSE).
VtkArray(name, typed, dtype, ntuples, ncomp, buf) ==
    [name |-> name, typed |-> typed, dtype |-> dtype, ntuples |-> ntuples,
     ncomp |-> ncomp, buf |-> buf]

\* A key of get / remove / pop: a name or a position.
ByName(n) == [byname |-> TRUE, name |-> n, index |-> 0]
ByIndex(i) == [byname |-> FALSE, name |-> NoName, index |-> i]

\* vtkFieldData::GetNumberOfArrays
GetNumberOfArrays(arrays) == Len(arrays)

\* vtkFieldData::GetAbstractArray(key): the position (from 1) of the array the
\* key addresses, 0 for None.  A name addresses the first array that bears it;
\* an index outside 0..n-1 (negative ones included) addresses nothing.
GetAbstractArray(arrays, key) ==
    IF key.byname
    THEN IF \E i \in 1..Len(arrays) : arrays[i].name = key.name
         THEN CHOOSE i \in 1..Len(arrays) :
                 /\ arrays[i].name = key.name
                 /\ \A j \in 1..(i - 1) : arrays[j].name # key.name
         ELSE 0
    ELSE IF 0 <= key.index /\ key.index < Len(arrays) THEN key.index + 1 ELSE 0

\* vtkFieldData::GetArray(key): as GetAbstractArray, None unless the array is
\* a vtkDataArray.
GetArray(arrays, key) ==
    LET i == GetAbstractArray(arrays, key)
    IN  IF i # 0 /\ arrays[i].typed THEN i ELSE 0

RemoveAt(arrays, i) ==
    SubSeq(arrays, 1, i - 1) \o SubSeq(arrays, i + 1, Len(arrays))

\* vtkFieldData::RemoveArray(key)
RemoveArray(arrays, key) ==
    LET i == GetAbstractArray(arrays, key)
    IN  IF i = 0 THEN arrays ELSE RemoveAt(arrays, i)

\* vtkFieldData::AddArray: an array of the same name is replaced in place,
\* any other array is added at the end.
AddArray(arrays, vtk_arr) ==
    LET i == GetAbstractArray(arrays, ByName(vtk_arr.name))
    IN  IF vtk_arr.name # NoName /\ i # 0
        THEN [arrays EXCEPT ![i] = vtk_arr]
        ELSE Append(arrays, vtk_arr)

\* vtkDataSetAttributes::SetTCoords: the current texture-coordinate array (the
\* one the setter named) is removed, the new one added.
SetTCoords(arrays, vtk_arr) ==
    AddArray(RemoveArray(arrays, ByName(TCoordsName)), vtk_arr)

\* ------------------------------------------------- conversions (numpy <-> vtk)
\* pyvista_ndarray.from_iter: a list or tuple as an array.
from_iter(v) == NdArray("int64", v.shape, v.strides, v.buf)

\* helpers.convert_array / numpyTovtkDataArray: a contiguous array of rank 1
\* or 2 as a vtkDataArray of shape[0] tuples and shape[1] components.
convert_array(narray, name) ==
    VtkArray(name, TRUE, narray.dtype, narray.shape[1],
             IF Ndim(narray) = 1 THEN 1 ELSE narray.shape[2], narray.buf)

\* pyvista_ndarray.from_vtk_data_array: the array's buffer as a numpy array,
\* rank 1 when it has one component.
from_vtk_data_array(vtk_arr) ==
    LET shape == IF vtk_arr.ncomp = 1 THEN <<vtk_arr.ntuples>>
                 ELSE <<vtk_arr.ntuples, vtk_arr.ncomp>>
    IN  NdArray(vtk_arr.dtype, shape, CStrides(shape), vtk_arr.buf)

\* What get returns when only the untyped lookup finds the key: the
\* vtkAbstractArray itself.
AbstractValue(vtk_arr) ==
    [kind |-> "vtkAbstractArray", dtype |-> vtk_arr.dtype,
     shape |-> <<vtk_arr.ntuples>>, strides |-> <<1>>, buf |-> vtk_arr.buf]

\* ------------------------------------------------------------------- state
VARIABLES
    association,     \* self.association
    arrays,          \* the arrays of self.VTKObject, in the container's order
    bitarray_names,  \* dataset.association_bitarray_names: association -> names
    last             \* the call the caller last made and what came of it:
                     \* operation, arguments, error, return value and the
                     \* number of Modified() calls; "idle" between calls

vars == <<association, arrays, bitarray_names, last>>

\* The outcome of one call: the container and the registry it leaves, the
\* Modified() calls it made, the error it raised (OK for none) and its value.
Outcome(arrs, bits, mods, err, ret) ==
    [arrays |-> arrs, bits |-> bits, mods |-> mods, err |-> err, ret |-> ret]

AssertNdim == "AssertionError: Texture coordinates must be a 2-dimensional array"
AssertCount == "AssertionError: Number of texture coordinates must match number of points"
AssertComponents == "AssertionError: Texture coordinates must only have 2 components"
AssertionErrors == {AssertNdim, AssertCount, AssertComponents}

\* ------------------------------------------------------------ the adapter
\* __len__
length(arrs) == GetNumberOfArrays(arrs)

\* keys(): the names of the arrays that have one, in the container's order.
keys(arrs) == SelectSeq([i \in 1..Len(arrs) |-> arrs[i].name],
                        LAMBDA n : n # NoName)

Range(s) == {s[i] : i \in 1..Len(s)}

\* __contains__
contains(arrs, item) == item \in Range(keys(arrs))

\* valid_array_len with the association ignored: always the point count.
valid_array_len_points(a) == {NumPoints}

\* valid_array_len: the set holding the required length, empty for None (no
\* length equals None).
valid_array_len(a) ==
    IF a = POINT THEN {NumPoints}
    ELSE IF a = CELL THEN {NumCells}
    ELSE {}

\* _raise_index_out_of_bounds
raise_index_out_of_bounds(arrs, key) ==
    ~key.byname /\ key.index >= GetNumberOfArrays(arrs)

\* get_array: the error, the value and the position (from 1) of the array.
get_array(arrs, bits, a, key) ==
    IF raise_index_out_of_bounds(arrs, key)
    THEN [err |-> IndexError, ret |-> NoneValue, at |-> 0]
    ELSE LET i == GetArray(arrs, key)
             j == GetAbstractArray(arrs, key)
         IN  IF i = 0
             THEN IF j = 0
                  THEN [err |-> KeyError, ret |-> NoneValue, at |-> 0]
                  ELSE [err |-> OK, ret |-> AbstractValue(arrs[j]), at |-> j]
             ELSE LET narray == from_vtk_data_array(arrs[i])
                  IN  [err |-> OK,
                       ret |-> IF arrs[i].name \in bits[a]
                               THEN View(narray, "bool") ELSE narray,
                       at |-> i]

\* register_bitarray_name with the dtype test lost: every name is registered.
register_bitarray_name_any(bits, a, narray, name) ==
    [bits EXCEPT ![a] = @ \cup {name}]

\* append, line 138-139: a boolean value registers its name.
register_bitarray_name(bits, a, narray, name) ==
    IF narray.dtype = "bool" THEN [bits EXCEPT ![a] = @ \cup {name}] ELSE bits

\* append, lines 142-149: the required length (of a value that has a first
\* axis).
array_len(a, narray) ==
    IF a = POINT THEN NumPoints
    ELSE IF a = CELL THEN NumCells
    ELSE IF a = ROW THEN narray.shape[1]
    ELSE IF IsNdArray(narray) THEN narray.shape[1] ELSE 1

\* length_mismatch rejecting only values that are too long.
length_mismatch_longer(narray, len) == narray.shape[1] > len

\* append, line 150
length_mismatch(narray, len) == narray.shape[1] # len

\* append, lines 155-158: a scalar broadcast into numpy.empty(array_len).
fill_scalar(narray, len) ==
    IF ~IsNdArray(narray) \/ Ndim(narray) = 0
    THEN NdArray("float64", <<len>>, <<1>>, [i \in 1..len |-> narray.buf[1]])
    ELSE narray

\* append, lines 161-171: an array of matrices whose matrices lie in C order,
\* or in Fortran order in non-contiguous memory, is transposed.
transpose_matrices(narray) ==
    IF Ndim(narray) = 3
       /\ \/ narray.strides[2] = 3 /\ narray.strides[3] = 1
          \/ /\ narray.strides[2] = 1 /\ narray.strides[3] = 3
             /\ ~Contiguous(narray)
    THEN Transpose021(narray)
    ELSE narray

\* append, lines 173-179: made contiguous, then matrices flattened to
\* vectors, with the shape the value had before any transpose.
flatten_matrices(narray, shape) ==
    LET c == IF Contiguous(narray) THEN narray ELSE AsContiguous(narray)
    IN  IF Len(shape) = 3 THEN Reshape(c, <<shape[1], shape[2] * shape[3]>>)
        ELSE c

\* append (deep_copy only decides whether the vtk array shares the copy's
\* memory; either way the container holds the same elements).
append(arrs, bits, a, value, name, deep_copy) ==
    IF value.kind = "none"
    THEN Outcome(arrs, bits, 0, TypeError, NoneValue)
    ELSE LET n1 == IF value.kind = "list" THEN from_iter(value) ELSE value IN
    IF n1.kind = "pyscalar"
    THEN \* line 138: a Python number has no dtype
         Outcome(arrs, bits, 0, AttributeError, NoneValue)
    ELSE LET bits1 == register_bitarray_name(bits, a, n1, name)
             n2 == IF n1.dtype = "bool" THEN View(n1, "uint8") ELSE n1
         IN
    IF Ndim(n2) = 0
    THEN \* lines 147, 149, 150: shape[0] of an empty shape
         Outcome(arrs, bits1, 0, IndexError, NoneValue)
    ELSE IF length_mismatch(n2, array_len(a, n2))
    THEN Outcome(arrs, bits1, 0, ValueError, NoneValue)
    ELSE LET n3 == fill_scalar(n2, array_len(a, n2))
             n4 == flatten_matrices(transpose_matrices(n3), n3.shape)
         IN  Outcome(AddArray(arrs, convert_array(n4, name)), bits1, 1, OK,
                     NoneValue)

\* discard_bitarray_name that leaves the registry as it is.
discard_bitarray_name_kept(bits, a, name) == bits

\* remove, lines 197-200: set.remove(name), a KeyError ignored.
discard_bitarray_name(bits, a, name) == [bits EXCEPT ![a] = @ \ {name}]

\* remove
remove(arrs, bits, a, key) ==
    IF raise_index_out_of_bounds(arrs, key)
    THEN Outcome(arrs, bits, 0, IndexError, NoneValue)
    ELSE LET got == get_array(arrs, bits, a, key)
         IN  IF got.err # OK
             THEN Outcome(arrs, bits, 0, got.err, NoneValue)
             ELSE Outcome(RemoveArray(arrs, key),
                          discard_bitarray_name(bits, a, arrs[got.at].name),
                          1, OK, NoneValue)

\* pop: the typed array is copied, the key removed, the copy returned as a
\* numpy array (from_vtk_data_array has no array to read when the typed
\* lookup found none).
pop(arrs, bits, a, key) ==
    IF raise_index_out_of_bounds(arrs, key)
    THEN Outcome(arrs, bits, 0, IndexError, NoneValue)
    ELSE LET i == GetArray(arrs, key)
             removed == remove(arrs, bits, a, key)
         IN  IF removed.err # OK THEN removed
             ELSE IF i = 0 THEN [removed EXCEPT !.err = AttributeError]
             ELSE [removed EXCEPT !.ret = from_vtk_data_array(arrs[i])]

\* clear: remove(key=name) for every name keys() listed.
RECURSIVE remove_all(_, _, _, _, _)
remove_all(arrs, bits, a, names, mods) ==
    IF names = << >> THEN Outcome(arrs, bits, mods, OK, NoneValue)
    ELSE LET r == remove(arrs, bits, a, ByName(Head(names)))
         IN  IF r.err # OK THEN [r EXCEPT !.mods = mods]
             ELSE remove_all(r.arrays, r.bits, a, Tail(names), mods + 1)
clear(arrs, bits, a) == remove_all(arrs, bits, a, keys(arrs), 0)

\* update: self[name] = array for every item, in the mapping's order.
RECURSIVE update(_, _, _, _, _)
update(arrs, bits, a, items, mods) ==
    IF items = << >> THEN Outcome(arrs, bits, mods, OK, NoneValue)
    ELSE LET r == append(arrs, bits, a, Head(items).value, Head(items).name, FALSE)
         IN  IF r.err # OK THEN [r EXCEPT !.mods = mods]
             ELSE update(r.arrays, r.bits, a, Tail(items), mods + 1)

\* t_coords setter
set_t_coords(arrs, bits, a, t_coords) ==
    IF ~IsNdArray(t_coords)
    THEN Outcome(arrs, bits, 0, TypeError, NoneValue)
    ELSE IF Ndim(t_coords) # 2
    THEN Outcome(arrs, bits, 0, AssertNdim, NoneValue)
    ELSE IF t_coords.shape[1] \notin valid_array_len(a)
    THEN Outcome(arrs, bits, 0, AssertCount, NoneValue)
    ELSE IF t_coords.shape[2] # 2
    THEN Outcome(arrs, bits, 0, AssertComponents, NoneValue)
    ELSE Outcome(SetTCoords(arrs, convert_array(t_coords, TCoordsName)), bits,
                 1, OK, NoneValue)

\* ------------------------------------------------------------------ inputs
\* First-axis lengths of the values tried: one fits the points, one the cells.
Lens == {NumCells, NumPoints}

BoolArray(n) == NdArray("bool", <<n>>, <<1>>, [i \in 1..n |-> i % 2])
IntArray(n) == NdArray("int64", <<n>>, <<1>>, [i \in 1..n |-> 256 + i])
\* n matrices of 3 x 3, each in C order (contiguous) ...
Matrices(n) == NdArray("int64", <<n, 3, 3>>, <<9, 3, 1>>, [i \in 1..(9 * n) |-> i])
\* ... and each in Fortran order (a transposed view: not contiguous).
MatricesF(n) == NdArray("int64", <<n, 3, 3>>, <<9, 1, 3>>, [i \in 1..(9 * n) |-> i])
ZeroDim == NdArray("int64", << >>, << >>, <<5>>)
Coords(n, c) == NdArray("float64", <<n, c>>, <<c, 1>>, [i \in 1..(n * c) |-> i % 2])

AppendValues ==
    {NoneValue, PyScalar(5), ZeroDim,
     IntArray(NumPoints), PyList([i \in 1..NumCells |-> 256 + i]),
     Matrices(NumPoints), MatricesF(NumCells)}
    \cup {BoolArray(n) : n \in Lens}

TCoordValues ==
    {PyList(<<0, 1>>), IntArray(NumPoints)}
    \cup {Coords(n, c) : n \in Lens, c \in {2, 3}}

KeySet == {ByName(n) : n \in AllNames} \cup {ByIndex(i) : i \in -1..MaxIndex}

Item(name, value) == [name |-> name, value |-> value]
UpdateDicts ==
    {<<Item("a", v), Item("b", w)>> :
        v \in {BoolArray(n) : n \in Lens},
        w \in {IntArray(NumPoints), PyList([i \in 1..NumCells |-> 256 + i])}}

\* Arrays the toolkit itself put in the wrapped container: a string array and
\* a numeric array that was never named, of the dataset's length.
NativeLen(a) == IF a = CELL THEN NumCells ELSE NumPoints
NativeArrays(a) ==
    <<VtkArray(NativeName, FALSE, "string", NativeLen(a), 1,
               [i \in 1..NativeLen(a) |-> i]),
      VtkArray(NoName, TRUE, "int64", NativeLen(a), 1,
               [i \in 1..NativeLen(a) |-> i])>>

\* ----------------------------------------------------------------- actions
Call(op, key, val, r) ==
    [op |-> op, key |-> key, val |-> val, err |-> r.err, ret |-> r.ret,
     mods |-> r.mods]
Idle == Call("idle", ByName(NoName), NoneValue,
             Outcome(<< >>, << >>, 0, OK, NoneValue))

\* __init__: the adapter wraps a container of a dataset: a new dataset's
\* empty container, with nothing registered, or a container the toolkit has
\* put arrays in, of a dataset whose sibling attribute sets have registered a
\* boolean array "a".
Init ==
    /\ association \in Associations
    /\ \/ /\ arrays = << >>
          /\ bitarray_names = [x \in Associations |-> {}]
       \/ /\ arrays = NativeArrays(association)
          /\ bitarray_names =
                [x \in Associations |-> IF x = association THEN {} ELSE {"a"}]
    /\ last = Idle

\* One call with outcome r: the caller is between calls; the call leaves the
\* container and the registry of r and hands the caller its error or value.
Do(op, key, val, r) ==
    /\ last.op = "idle"
    /\ arrays' = r.arrays
    /\ bitarray_names' = r.bits
    /\ last' = Call(op, key, val, r)
    /\ UNCHANGED association

\* The caller has taken the result and is ready for its next call.
Return ==
    /\ last.op # "idle"
    /\ last' = Idle
    /\ UNCHANGED <<association, arrays, bitarray_names>>

AppendCall ==
    \E name \in UserNames, value \in AppendValues, deep_copy \in BOOLEAN :
        Do("append", ByName(name), value,
           append(arrays, bitarray_names, association, value, name, deep_copy))

SetItemCall ==
    \E key \in UserNames, value \in AppendValues :
        Do("append", ByName(key), value,
           append(arrays, bitarray_names, association, value, key, FALSE))

GetItemCall ==
    \E key \in KeySet :
        LET got == get_array(arrays, bitarray_names, association, key)
        IN  Do("get", key, NoneValue,
               Outcome(arrays, bitarray_names, 0, got.err, got.ret))

RemoveCall ==
    \E key \in KeySet :
        Do("remove", key, NoneValue,
           remove(arrays, bitarray_names, association, key))

DelItemCall ==
    \E key \in KeySet :
        Do("remove", key, NoneValue,
           remove(arrays, bitarray_names, association, key))

PopCall ==
    \E key \in KeySet :
        Do("pop", key, NoneValue, pop(arrays, bitarray_names, association, key))

ClearCall ==
    Do("clear", ByName(NoName), NoneValue,
       clear(arrays, bitarray_names, association))

UpdateCall ==
    \E array_dict \in UpdateDicts :
        Do("update", ByName(NoName), array_dict[1].value,
           update(arrays, bitarray_names, association, array_dict, 0))

SetTCoordsCall ==
    \E t_coords \in TCoordValues :
        Do("t_coords", ByName(TCoordsName), t_coords,
           set_t_coords(arrays, bitarray_names, association, t_coords))

Next ==
    \/ AppendCall
    \/ SetItemCall
    \/ GetItemCall
    \/ RemoveCall
    \/ DelItemCall
    \/ PopCall
    \/ ClearCall
    \/ UpdateCall
    \/ SetTCoordsCall
    \/ Return

Spec == Init /\ [][Next]_vars

\* ------------------------------------------------------------------ claims
\* What the claims say about values.
IsScalarValue(v) == v.kind = "pyscalar" \/ (IsNdArray(v) /\ Ndim(v) = 0)
IsArrayValue(v) == v.kind \in {"list", "ndarray"} /\ Ndim(v) >= 1
IsBoolValue(v) == IsNdArray(v) /\ v.dtype = "bool"
\* The array a list or an array value stands for.
AsArray(v) == IF v.kind = "list" THEN from_iter(v) ELSE v
\* Element-wise equal, with the same element kind (boolean or not).
SameArray(x, v) ==
    /\ (x.dtype = "bool") <=> (v.dtype = "bool")
    /\ x.shape = v.shape
    /\ Elements(x) = Elements(v)
\* The position (from 1) of the array named n, 0 when there is none.
Where(arrs, n) == GetAbstractArray(arrs, ByName(n))
\* The length the claims require of a value under an association.
RequiredLen(a, v) ==
    IF a = POINT THEN NumPoints ELSE IF a = CELL THEN NumCells ELSE v.shape[1]

\* C1: after set(name, v) with a one-dimensional numeric or boolean v has
\* succeeded, get(name) succeeds and returns an array element-wise equal to v
\* with v's element kind (boolean read back as boolean, anything else as
\* non-boolean), whatever the name held before.
C1_SetThenGet ==
    (last.op = "append" /\ last.err = OK /\ Ndim(last.val) = 1) =>
        LET got == get_array(arrays, bitarray_names, association, last.key)
        IN  got.err = OK /\ SameArray(got.ret, AsArray(last.val))

\* C2: an append of a non-scalar value whose first-axis length differs from
\* the required length fails with ValueError under POINT, CELL and ROW, and
\* no append fails with ValueError under FIELD.
C2_LengthMismatch ==
    (last.op = "append" /\ IsArrayValue(last.val)) =>
        /\ (association \in {POINT, CELL, ROW}
            /\ last.val.shape[1] # RequiredLen(association, last.val))
           => last.err = ValueError
        /\ association = FIELD => last.err # ValueError

\* C2 witness: under POINT or CELL an append of a value of the wrong length
\* has failed with ValueError.
C2_Witness ==
    /\ last.op = "append" /\ IsArrayValue(last.val)
    /\ association \in {POINT, CELL}
    /\ last.val.shape[1] # RequiredLen(association, last.val)
    /\ last.err = ValueError

\* C3: an append of a scalar or zero-dimensional value succeeds and stores
\* under the name an array of the required length (point count, cell count,
\* 1 otherwise) whose every element is the scalar.
C3_ScalarBroadcast ==
    (last.op = "append" /\ IsScalarValue(last.val)) =>
        /\ last.err = OK
        /\ Where(arrays, last.key.name) # 0
        /\ LET arr == arrays[Where(arrays, last.key.name)]
               len == IF association = POINT THEN NumPoints
                      ELSE IF association = CELL THEN NumCells ELSE 1
           IN  /\ arr.ntuples = len
               /\ arr.buf = [i \in 1..len |-> last.val.buf[1]]

\* C4: a failed append (TypeError for None, ValueError for a wrong length)
\* leaves the arrays as they were and calls Modified() not once; the registry
\* is as it was too, except that a boolean value's name has been added to
\* this association's names.
C4_FailedAppend ==
    [][(last'.op = "append" /\ last'.err \in {TypeError, ValueError}) =>
          /\ arrays' = arrays
          /\ last'.mods = 0
          /\ bitarray_names' =
                IF last'.err = ValueError /\ IsBoolValue(last'.val)
                THEN [bitarray_names EXCEPT
                         ![association] = @ \cup {last'.key.name}]
                ELSE bitarray_names]_vars

\* C4 witness: an append of a boolean value has failed with ValueError, and
\* its name is flagged boolean though the container holds no such array.
C4_Witness ==
    /\ last.op = "append" /\ last.err = ValueError /\ IsBoolValue(last.val)
    /\ last.key.name \in bitarray_names[association]
    /\ ~contains(arrays, last.key.name)

\* C5: a remove(key) that succeeds on the array at position i, named n,
\* leaves a container without n (contains false, keys without n, length one
\* less) whose other arrays are those it held, in their order; n is flagged
\* boolean no more, the other names of this association and the names of the
\* other associations are as they were.
C5_Remove ==
    [][(last'.op = "remove" /\ last'.err = OK) =>
          LET i == GetAbstractArray(arrays, last'.key)
              n == arrays[i].name
          IN  /\ i # 0
              /\ ~contains(arrays', n)
              /\ \A k \in 1..Len(keys(arrays')) : keys(arrays')[k] # n
              /\ length(arrays') = length(arrays) - 1
              /\ \A j \in 1..Len(arrays) :
                    /\ j < i => arrays'[j] = arrays[j]
                    /\ j > i => arrays'[j - 1] = arrays[j]
              /\ n \notin bitarray_names'[association]
              /\ bitarray_names'[association] = bitarray_names[association] \ {n}
              /\ \A x \in Associations \ {association} :
                    bitarray_names'[x] = bitarray_names[x]]_vars

\* C5 witness: a remove by an in-range index has succeeded on a container
\* that still holds an array set by name, on a dataset whose other
\* associations have boolean names registered.
C5_Witness ==
    /\ last.op = "remove" /\ last.err = OK /\ ~last.key.byname
    /\ \E i \in 1..Len(arrays) : arrays[i].name \in UserNames
    /\ \E x \in Associations \ {association} : bitarray_names[x] # {}

\* C6: a pop(key) whose key the typed lookup finds returns what get(key)
\* would have returned just before (same elements, same element kind) and
\* leaves the state remove(key) would leave.
C6_Pop ==
    [][(last'.op = "pop" /\ GetArray(arrays, last'.key) # 0) =>
          LET got == get_array(arrays, bitarray_names, association, last'.key)
              rem == remove(arrays, bitarray_names, association, last'.key)
          IN  /\ last'.err = OK
              /\ SameArray(last'.ret, got.ret)
              /\ arrays' = rem.arrays
              /\ bitarray_names' = rem.bits]_vars

\* C7: after clear(), from any state, no error was raised, length() is 0 and
\* keys() is empty.
C7_Clear ==
    last.op = "clear" =>
        last.err = OK /\ length(arrays) = 0 /\ keys(arrays) = << >>

\* C8: every array of a POINT attribute set has as many tuples as the dataset
\* has points, every array of a CELL attribute set as many as it has cells.
C8_ArrayLengths ==
    \A i \in 1..Len(arrays) :
        /\ association = POINT => arrays[i].ntuples = NumPoints
        /\ association = CELL => arrays[i].ntuples = NumCells

\* C8 witness: a POINT or CELL attribute set holds an array set by name and
\* the array the texture-coordinate setter stored.
C8_Witness ==
    /\ association \in {POINT, CELL}
    /\ \E i \in 1..Len(arrays) : arrays[i].name \in UserNames
    /\ \E i \in 1..Len(arrays) : arrays[i].name = TCoordsName

\* C9: setting texture coordinates succeeds only with a numpy array of rank
\* 2 whose first axis is the dataset's point count and whose second axis is
\* 2, under any association; anything that is no array fails with TypeError,
\* any other array with an AssertionError; a failed set changes nothing.
C9_TCoords ==
    [][last'.op = "t_coords" =>
          LET v == last'.val
              good == /\ IsNdArray(v) /\ Ndim(v) = 2
                      /\ v.shape[1] = NumPoints /\ v.shape[2] = 2
          IN  /\ last'.err = OK => good
              /\ ~IsNdArray(v) => last'.err = TypeError
              /\ (IsNdArray(v) /\ ~good) => last'.err \in AssertionErrors
              /\ last'.err # OK =>
                    /\ arrays' = arrays
                    /\ bitarray_names' = bitarray_names
                    /\ last'.mods = 0]_vars

\* C10: get with an integer key that addresses no array (at or past the
\* array count, or below zero) fails with IndexError; a key the typed lookup
\* finds returns the numeric array, boolean iff its name is flagged; a key
\* only the untyped lookup finds returns that array; a key neither finds
\* fails with KeyError; get changes neither container nor registry.
C10_Get ==
    [][last'.op = "get" =>
          LET key == last'.key
              i == GetArray(arrays, key)
              j == GetAbstractArray(arrays, key)
          IN  /\ arrays' = arrays /\ bitarray_names' = bitarray_names
              /\ (~key.byname /\ j = 0) => last'.err = IndexError
              /\ i # 0 =>
                    /\ last'.err = OK /\ IsNdArray(last'.ret)
                    /\ (last'.ret.dtype = "bool") <=>
                          (arrays[i].name \in bitarray_names[association]
                           \/ arrays[i].dtype = "bool")
              /\ (i = 0 /\ j # 0) =>
                    last'.err = OK /\ last'.ret = AbstractValue(arrays[j])
              /\ (key.byname /\ j = 0) => last'.err = KeyError]_vars

====
